---- MODULE Spec2Model ----
(***************************************************************************)
(* Model of draw_berkeley_bart.py: the data facade (CSV rows to Station    *)
(* records, sorted by count), the presenter (title, reference rings,       *)
(* spokes drawn on a sketch) and main (argument handling, one frame per    *)
(* step in interactive mode, one frame and an image in batch mode).        *)
(*                                                                         *)
(* Numbers.  Python's "/" is IEEE-754 binary64 division, so the lengths    *)
(* computed by _get_line_length are doubles.  A double is modelled exactly *)
(* as [m, e]: m is its 53-bit significand, most significant bit first      *)
(* (m[1] = 1), e the exponent of the last bit, value = m * 2^e; zero is    *)
(* [m |-> <<>>, e |-> 0].  Only non-negative doubles are needed: every     *)
(* count the model feeds to the length mapping is >= 0.                    *)
(*                                                                         *)
(* The sketch.  sketchingpy is a library the program calls; its state is   *)
(* modelled by what the calls made here set: the style (fill, stroke,      *)
(* font, alignment, modes, "default" until set), the current transform as  *)
(* the list of translate / rotate operations applied to it, and the stack  *)
(* of saved transforms.  Every call is logged with the part of that state  *)
(* its effect depends on.                                                  *)
(***************************************************************************)
EXTENDS Integers, Sequences, FiniteSets

VARIABLES
    pc,          \* position of the program
    argv,        \* sys.argv
    files,       \* the data layer: location -> rows
    data_loc,    \* main's local data_loc
    output_loc,  \* main's local output_loc
    interactive, \* main's local interactive
    data,        \* main's local data, the list get_stations returned
    raw_read,    \* the rows the last get_csv call handed to get_stations
    error,       \* the exception that ended the run, or "none"
    sketch,      \* the drawing surface's state
    max_value,   \* draw's local max_value
    idx,         \* position of the tick loop / the record loop
    frame,       \* the commands issued by the frame being drawn
    frames,      \* the command lists of the finished frames
    image,       \* what save_image wrote, or "none"
    stdout,      \* the lines printed
    call         \* the pure call under test (SpecLen, SpecLoad)

vars == <<pc, argv, files, data_loc, output_loc, interactive, data, raw_read,
          error, sketch, max_value, idx, frame, frames, image, stdout, call>>

(***************************************************************************)
(* Program constants.                                                      *)
(***************************************************************************)
NUM_ARGS == 2
WIDTH == 600
HEIGHT == 600
LINE_MIN_LEN == 70
LINE_MAX_LEN == 210
TICK_STEP == 5000
FULL_TURN == 360
DEFAULT_DATA_LOCATION == "berkeley_trips.csv"
BG_COLOR == "#EAEAEA"
FG_COLOR == "#333333"
TICK_COLOR == "#FFFFFF"
TITLE == "Bart trips from Downtown Berkeley to other stations in March 2024."
USAGE_STR == "USAGE: python draw_berkeley_bart.py input_loc output_loc"

(***************************************************************************)
(* binary64 arithmetic on bit sequences.                                   *)
(***************************************************************************)
MANT_BITS == 53

DblZero == [m |-> <<>>, e |-> 0]

Zeros(k) == [i \in 1..k |-> 0]

Max2(a, b) == IF a >= b THEN a ELSE b
Min2(a, b) == IF a <= b THEN a ELSE b

\* 2^0 .. 2^30.
POW2 == <<1, 2, 4, 8, 16, 32, 64, 128, 256, 512, 1024, 2048, 4096, 8192, 16384,
          32768, 65536, 131072, 262144, 524288, 1048576, 2097152, 4194304,
          8388608, 16777216, 33554432, 67108864, 134217728, 268435456,
          536870912, 1073741824>>

Pow2(k) == POW2[k + 1]

\* The number of binary digits of n (0 <= n < 2^30); 0 for n = 0.
BitLen(n) == CHOOSE k \in 0..30 : n < Pow2(k) /\ (k = 0 \/ Pow2(k - 1) <= n)

\* The binary digits of n, most significant first; <<>> for 0.
NatBits(n) == [i \in 1..BitLen(n) |-> (n \div Pow2(BitLen(n) - i)) % 2]

\* bits + 1; one bit longer when bits is all ones.
Increment(bits) ==
    LET n     == Len(bits)
        zeros == {i \in 1..n : bits[i] = 0}
    IN  IF zeros = {} THEN <<1>> \o Zeros(n)
        ELSE LET j == CHOOSE i \in zeros : \A k \in zeros : k <= i
             IN  [i \in 1..n |-> IF i < j THEN bits[i] ELSE IF i = j THEN 1 ELSE 0]

\* Round the exact value bits * 2^e (bits[1] = 1, or bits empty) to the
\* nearest double, ties to even: the rounding of every binary64 operation.
RoundNearestEven(bits, e) ==
    LET n == Len(bits) IN
    IF n = 0 THEN DblZero
    ELSE IF n <= MANT_BITS
    THEN [m |-> bits \o Zeros(MANT_BITS - n), e |-> e - (MANT_BITS - n)]
    ELSE LET keep   == SubSeq(bits, 1, MANT_BITS)
             guard  == bits[MANT_BITS + 1]
             sticky == \E i \in (MANT_BITS + 2)..n : bits[i] = 1
             up     == guard = 1 /\ (sticky \/ keep[MANT_BITS] = 1)
             r      == IF up THEN Increment(keep) ELSE keep
         IN  IF Len(r) > MANT_BITS
             THEN [m |-> SubSeq(r, 1, MANT_BITS), e |-> e + (n - MANT_BITS) + 1]
             ELSE [m |-> r, e |-> e + (n - MANT_BITS)]

\* float(n) for an int 0 <= n < 2^30: exact.
FloatOfInt(n) == RoundNearestEven(NatBits(n), 0)

\* The digit strings below are computed in halves, the half that feeds the
\* other one first (bound by a set, so that it is a value before the second
\* half starts): the evaluation stays shallow.
The(S) == CHOOSE x \in S : TRUE

RECURSIVE LongDiv(_, _, _)
\* k >= 1 further quotient bits of r / d (0 <= r < d) and the remainder
\* left after them.
LongDiv(r, d, k) ==
    IF k = 1
    THEN LET bit == IF 2 * r >= d THEN 1 ELSE 0
         IN  [bits |-> <<bit>>, rem |-> 2 * r - bit * d]
    ELSE The({ The({ [bits |-> first.bits \o second.bits, rem |-> second.rem] :
                     second \in {LongDiv(first.rem, d, k - k \div 2)} }) :
               first \in {LongDiv(r, d, k \div 2)} })

\* a / b in binary64 for ints a > 0, b > 0 (Python's true division): the
\* first 54 quotient bits, a sticky bit for the remainder, rounded.
FloatDiv(a, b) ==
    LET up   == a >= b
        \* up: the largest k with b * 2^k <= a; else the smallest k with
        \* a * 2^k >= b.
        k    == IF up THEN BitLen(a \div b) - 1
                      ELSE BitLen(((b + a - 1) \div a) - 1)
        num  == IF up THEN a ELSE a * Pow2(k)
        den  == IF up THEN b * Pow2(k) ELSE b
        top  == IF up THEN k ELSE 0 - k          \* exponent of the first bit
        q    == LongDiv(num - den, den, MANT_BITS)
        bits == <<1>> \o q.bits \o << IF q.rem = 0 THEN 0 ELSE 1 >>
    IN  RoundNearestEven(bits, top - (MANT_BITS + 1))

RECURSIVE MulBits(_, _, _)
\* bits * c + carry for a non-empty bit sequence: the low Len(bits) digits
\* and the carry out of them.
MulBits(bits, c, carry) ==
    IF Len(bits) = 1
    THEN LET v == bits[1] * c + carry
         IN  [bits |-> <<v % 2>>, carry |-> v \div 2]
    ELSE LET h == Len(bits) \div 2
         IN  The({ The({ [bits |-> hi.bits \o lo.bits, carry |-> hi.carry] :
                         hi \in {MulBits(SubSeq(bits, 1, h), c, lo.carry)} }) :
                   lo \in {MulBits(SubSeq(bits, h + 1, Len(bits)), c, carry)} })

\* x * n in binary64 for a double x >= 0 and an int 0 <= n < 2^29 (the int
\* converts to a double exactly, the product is rounded once).
FloatMulInt(x, n) ==
    IF n = 0 \/ x.m = <<>> THEN DblZero
    ELSE LET p == MulBits(x.m, n, 0)
             hi == NatBits(p.carry)
         IN  RoundNearestEven(hi \o p.bits, x.e)

RECURSIVE AddBits(_, _, _)
\* a + b + carry for two non-empty bit sequences of the same length: the
\* low Len(a) digits and the carry out of them.
AddBits(a, b, carry) ==
    IF Len(a) = 1
    THEN LET v == a[1] + b[1] + carry
         IN  [bits |-> <<v % 2>>, carry |-> v \div 2]
    ELSE LET h == Len(a) \div 2
         IN  The({ The({ [bits |-> hi.bits \o lo.bits, carry |-> hi.carry] :
                         hi \in {AddBits(SubSeq(a, 1, h), SubSeq(b, 1, h), lo.carry)} }) :
                   lo \in {AddBits(SubSeq(a, h + 1, Len(a)),
                                    SubSeq(b, h + 1, Len(b)), carry)} })

\* x + y in binary64 for doubles x >= 0, y >= 0.
FloatAdd(x, y) ==
    IF x.m = <<>> THEN y
    ELSE IF y.m = <<>> THEN x
    ELSE LET lo == Min2(x.e, y.e)
             xb == x.m \o Zeros(x.e - lo)
             yb == y.m \o Zeros(y.e - lo)
             n  == Max2(Len(xb), Len(yb))
             s  == AddBits(Zeros(n - Len(xb)) \o xb, Zeros(n - Len(yb)) \o yb, 0)
         IN  RoundNearestEven(NatBits(s.carry) \o s.bits, lo)

\* Lexicographic <= on bit sequences of the same length.
BitsLeq(a, b) ==
    \/ a = b
    \/ \E i \in 1..Len(a) : a[i] < b[i] /\ \A j \in 1..(i - 1) : a[j] = b[j]

\* x <= y on doubles >= 0.
FloatLeq(x, y) ==
    IF x.m = <<>> THEN TRUE
    ELSE IF y.m = <<>> THEN FALSE
    ELSE IF x.e # y.e THEN x.e < y.e
    ELSE BitsLeq(x.m, y.m)

(***************************************************************************)
(* StationVizPresenter._get_line_length.  The result is a double, or the   *)
(* ZeroDivisionError Python raises for 140 / 0.                            *)
(***************************************************************************)
Returned(v) == [error |-> "none", value |-> v]
Raised(e) == [error |-> e, value |-> DblZero]

_get_line_length(max_v, count) ==
    IF max_v = 0 THEN Raised("ZeroDivisionError")
    ELSE Returned(FloatAdd(FloatMulInt(FloatDiv(LINE_MAX_LEN - LINE_MIN_LEN, max_v),
                                       count),
                           FloatOfInt(LINE_MIN_LEN)))

(***************************************************************************)
(* Texts.  A count text is a sequence of one-character strings; names,     *)
(* codes and locations are never inspected and stay opaque strings.        *)
(***************************************************************************)
DIGITS == <<"0", "1", "2", "3", "4", "5", "6", "7", "8", "9">>

IsDigit(ch) == \E d \in 1..10 : DIGITS[d] = ch
DigitVal(ch) == (CHOOSE d \in 1..10 : DIGITS[d] = ch) - 1

IsNotComma(ch) == ch # ","

\* A replace that stops after the first comma (str.replace(',', '', 1)).
replace_first_comma(text) ==
    LET commas == {i \in 1..Len(text) : text[i] = ","}
    IN  IF commas = {} THEN text
        ELSE LET k == CHOOSE i \in commas : \A j \in commas : i <= j
             IN  SubSeq(text, 1, k - 1) \o SubSeq(text, k + 1, Len(text))

\* str.replace(',', ''): every comma removed.
replace_commas(text) == SelectSeq(text, IsNotComma)

RECURSIVE DigitsValue(_)
\* The number a non-empty string of decimal digits denotes.
DigitsValue(ds) ==
    IF Len(ds) = 1 THEN DigitVal(ds[1])
    ELSE 10 * DigitsValue(SubSeq(ds, 1, Len(ds) - 1)) + DigitVal(ds[Len(ds)])

AllDigits(ds) == Len(ds) >= 1 /\ \A i \in 1..Len(ds) : IsDigit(ds[i])

\* int(text) on texts over digits, "-", "," and letters: an optional sign,
\* then at least one digit and nothing else; a ValueError otherwise.
int_of(text) ==
    IF AllDigits(text) THEN [error |-> "none", value |-> DigitsValue(text)]
    ELSE IF Len(text) >= 2 /\ text[1] = "-" /\ AllDigits(Tail(text))
    THEN [error |-> "none", value |-> 0 - DigitsValue(Tail(text))]
    ELSE [error |-> "ValueError", value |-> 0]

(***************************************************************************)
(* Station and DataFacade.                                                 *)
(***************************************************************************)
Station(name, code, count) == [name |-> name, code |-> code, count |-> count]
get_name(station) == station.name
get_code(station) == station.code
get_count(station) == station.count

NoStation == Station("", "", 0)

\* DataFacade._parse_data_point.  target is a row: a function from the
\* column names it has to their texts.  target['count'] is read first, then
\* int() runs, then target['name'] and target['code'] are read.
_parse_data_point(target) ==
    IF "count" \notin DOMAIN target
    THEN [error |-> "KeyError", station |-> NoStation]
    ELSE LET count_str       == target["count"]
             count_str_clean == replace_commas(count_str)
             count           == int_of(count_str_clean)
         IN  IF count.error # "none"
             THEN [error |-> count.error, station |-> NoStation]
             ELSE IF "name" \notin DOMAIN target \/ "code" \notin DOMAIN target
             THEN [error |-> "KeyError", station |-> NoStation]
             ELSE [error |-> "none",
                   station |-> Station(target["name"], target["code"], count.value)]

\* sorted(..., key=get_count): Python's sort is stable, so the result is the
\* one obtained by inserting each record, in source order, behind every
\* record whose count is not greater.
InsertByCount(sorted, x) ==
    LET keep == {i \in 1..Len(sorted) : get_count(sorted[i]) <= get_count(x)}
        k    == Cardinality(keep)
    IN  SubSeq(sorted, 1, k) \o <<x>> \o SubSeq(sorted, k + 1, Len(sorted))

RECURSIVE sorted_by_count(_)
sorted_by_count(records) ==
    IF records = <<>> THEN <<>>
    ELSE InsertByCount(sorted_by_count(SubSeq(records, 1, Len(records) - 1)),
                       records[Len(records)])

\* The rows get_stations asks the data layer for: get_csv is called with
\* the literal 'berkeley_trips.csv', whatever loc is.
csv_read(fs, loc) == fs["berkeley_trips.csv"]

\* DataFacade.get_stations on the rows read: map() parses the rows in
\* order while sorted() consumes them, so the first row that raises ends
\* the call with its exception.
stations_of(raw_data) ==
    LET parsed_data == [i \in 1..Len(raw_data) |-> _parse_data_point(raw_data[i])]
        bad         == {i \in 1..Len(raw_data) : parsed_data[i].error # "none"}
    IN  IF bad # {}
        THEN [error |-> parsed_data[CHOOSE i \in bad : \A j \in bad : i <= j].error,
              stations |-> <<>>]
        ELSE [error |-> "none",
              stations |-> sorted_by_count([i \in 1..Len(raw_data) |->
                                               parsed_data[i].station])]

get_stations(fs, loc) == stations_of(csv_read(fs, loc))

(***************************************************************************)
(* The sketch.                                                             *)
(***************************************************************************)
FONT == "PublicSans-Regular.otf"

NewSketch ==
    [transform |-> <<>>, stack |-> <<>>, fill |-> "default", stroke |-> "default",
     font |-> <<"default", 0>>, align |-> <<"default", "default">>,
     angle_mode |-> "default", ellipse_mode |-> "default"]

Cmd(name, args) == [cmd |-> name, args |-> args]

\* The sketch after one call.
Apply(sk, c) ==
    CASE c.cmd = "clear_stroke"     -> [sk EXCEPT !.stroke = "none"]
      [] c.cmd = "set_stroke"       -> [sk EXCEPT !.stroke = c.args[1]]
      [] c.cmd = "clear_fill"       -> [sk EXCEPT !.fill = "none"]
      [] c.cmd = "set_fill"         -> [sk EXCEPT !.fill = c.args[1]]
      [] c.cmd = "set_text_font"    -> [sk EXCEPT !.font = c.args]
      [] c.cmd = "set_text_align"   -> [sk EXCEPT !.align = c.args]
      [] c.cmd = "set_ellipse_mode" -> [sk EXCEPT !.ellipse_mode = c.args[1]]
      [] c.cmd = "set_angle_mode"   -> [sk EXCEPT !.angle_mode = c.args[1]]
      [] c.cmd = "push_transform"   ->
            [sk EXCEPT !.stack = Append(@, sk.transform)]
      [] c.cmd = "pop_transform"    ->
            [sk EXCEPT !.transform = sk.stack[Len(sk.stack)],
                       !.stack = SubSeq(@, 1, Len(@) - 1)]
      [] c.cmd = "translate"        ->
            [sk EXCEPT !.transform =
                Append(@, [op |-> "translate", by |-> c.args, unit |-> "pixels"])]
      [] c.cmd = "rotate"           ->
            [sk EXCEPT !.transform =
                Append(@, [op |-> "rotate", by |-> c.args, unit |-> sk.angle_mode])]
      [] OTHER                      -> sk   \* clear, draw_text, draw_ellipse, draw_line

\* The state a call's effect depends on, taken when the call is made.
Effective(sk, c) ==
    CASE c.cmd = "draw_text"    ->
            [transform |-> sk.transform, fill |-> sk.fill, stroke |-> sk.stroke,
             font |-> sk.font, align |-> sk.align]
      [] c.cmd = "draw_ellipse" ->
            [transform |-> sk.transform, fill |-> sk.fill, stroke |-> sk.stroke,
             ellipse_mode |-> sk.ellipse_mode]
      [] c.cmd = "draw_line"    ->
            [transform |-> sk.transform, fill |-> sk.fill, stroke |-> sk.stroke]
      [] c.cmd = "rotate"       ->
            [depth |-> Len(sk.stack), angle_mode |-> sk.angle_mode]
      [] OTHER                  -> [depth |-> Len(sk.stack)]

RECURSIVE Issue(_, _)
\* The calls cmds made in order on st = [sketch, frame]: each changes the
\* sketch and is appended to the frame's log.
Issue(st, cmds) ==
    IF cmds = <<>> THEN st
    ELSE LET c == Head(cmds)
         IN  Issue([sketch |-> Apply(st.sketch, c),
                    frame  |-> Append(st.frame,
                                      [cmd |-> c.cmd, args |-> c.args,
                                       eff |-> Effective(st.sketch, c)])],
                   Tail(cmds))

(***************************************************************************)
(* StationVizPresenter.                                                    *)
(***************************************************************************)
\* range(start, stop, step) for step > 0.
Range(start, stop, step) ==
    LET n == IF stop > start THEN (stop - start + step - 1) \div step ELSE 0
    IN  [i \in 1..n |-> start + (i - 1) * step]

\* A tick loop that stops at max_value: range(0, max_value + 1, 5000).
TickValuesUpToMax(max_v) == Range(0, max_v + 1, TICK_STEP)

\* The tick values of _draw_axis: range(0, max_value + 5000, 5000).
TickValues(max_v) == Range(0, max_v + TICK_STEP, TICK_STEP)

RECURSIVE NatText(_)
\* str(n) for n >= 0.
NatText(n) ==
    IF n < 10 THEN <<DIGITS[n + 1]>>
    ELSE Append(NatText(n \div 10), DIGITS[(n % 10) + 1])

RECURSIVE Grouped(_)
\* The digits ds with a comma before every group of three counted from the
\* right.
Grouped(ds) ==
    IF Len(ds) <= 3 THEN ds
    ELSE Grouped(SubSeq(ds, 1, Len(ds) - 3)) \o <<",">> \o SubSeq(ds, Len(ds) - 2, Len(ds))

\* f'{value:,}' for value >= 0.
FormatThousands(value) == Grouped(NatText(value))

RECURSIVE MaxCount(_)
\* max(map(get_count, records)) for a non-empty list.
MaxCount(records) ==
    IF Len(records) = 1 THEN get_count(records[1])
    ELSE Max2(get_count(records[1]), MaxCount(Tail(records)))

\* One lane per record, none left free.
NumLanesNoGap(records) == Len(records)

\* num_lanes of _draw_data.
NumLanes(records) == Len(records) + 1

\* 360 / num_lanes, the angle handed to rotate: kept as the quotient it is
\* (the sketch composes rotations itself; the model does not round them).
LaneAngle(num_lanes) == [num |-> FULL_TURN, den |-> num_lanes]

\* A title drawn under whatever alignment is in force.
_draw_title_unaligned ==
    << Cmd("clear_stroke", <<>>),
       Cmd("set_fill", <<FG_COLOR>>),
       Cmd("set_text_font", <<FONT, 14>>),
       Cmd("draw_text", <<WIDTH \div 2, HEIGHT - 20, TITLE>>) >>

_draw_title ==
    << Cmd("clear_stroke", <<>>),
       Cmd("set_fill", <<FG_COLOR>>),
       Cmd("set_text_font", <<FONT, 14>>),
       Cmd("set_text_align", <<"center", "center">>),
       Cmd("draw_text", <<WIDTH \div 2, HEIGHT - 20, TITLE>>) >>

\* _draw_axis up to the tick loop.
_draw_axis_begin ==
    << Cmd("push_transform", <<>>),
       Cmd("translate", <<WIDTH \div 2, HEIGHT \div 2>>),
       Cmd("set_text_align", <<"center", "center">>),
       Cmd("set_ellipse_mode", <<"radius">>),
       Cmd("clear_stroke", <<>>),
       Cmd("set_fill", <<FG_COLOR>>),
       Cmd("set_text_font", <<FONT, 20>>),
       Cmd("draw_text", <<0, 0, "Berkeley">>),
       Cmd("set_text_font", <<FONT, 10>>) >>

\* The body of the tick loop once x is computed.
_draw_axis_tick(x, value) ==
    << Cmd("clear_fill", <<>>),
       Cmd("set_stroke", <<TICK_COLOR>>),
       Cmd("draw_ellipse", <<0, 0, x, x>>),
       Cmd("clear_stroke", <<>>),
       Cmd("set_fill", <<FG_COLOR>>),
       Cmd("draw_text", <<x, 0, FormatThousands(value)>>) >>

_draw_axis_end == << Cmd("pop_transform", <<>>) >>

\* _draw_data up to the record loop.
_draw_data_begin ==
    << Cmd("push_transform", <<>>),
       Cmd("translate", <<WIDTH \div 2, HEIGHT \div 2>>),
       Cmd("set_angle_mode", <<"degrees">>) >>

\* The body of the record loop once length is computed.
_draw_data_spoke(length, num_lanes, record) ==
    << Cmd("rotate", <<LaneAngle(num_lanes)>>),
       Cmd("clear_fill", <<>>),
       Cmd("set_stroke", <<FG_COLOR>>),
       Cmd("draw_line", <<70, 0, length, 0>>),
       Cmd("clear_stroke", <<>>),
       Cmd("set_fill", <<FG_COLOR>>),
       Cmd("set_text_font", <<FONT, 10>>),
       Cmd("set_text_align", <<"left", "center">>),
       Cmd("draw_text", <<FloatAdd(length, FloatOfInt(2)), 0, get_name(record)>>) >>

_draw_data_end == << Cmd("pop_transform", <<>>) >>

(***************************************************************************)
(* Bounds and inputs.                                                      *)
(***************************************************************************)
MaxStations == 2     \* rows of the default dataset (Spec)
MaxFrames == 2       \* frames shown before the window closes (Spec)
MaxRows == 3         \* rows of a dataset (SpecLoad)
MaxTextLen == 3      \* characters of a count text (SpecLoad)
LenSmallMax == 12    \* max_value and count run over 0..LenSmallMax (SpecLen)

SeqsUpTo(S, n) == UNION {[1..k -> S] : k \in 0..n}

Row(name, code, count_text) == [name |-> name, code |-> code, count |-> count_text]

PROGRAM == "draw_berkeley_bart.py"
OTHER_LOCATION == "other_trips.csv"
OUTPUT_LOCATION == "out.png"
Locations == {DEFAULT_DATA_LOCATION, OTHER_LOCATION}

\* Rows of the default dataset in Spec: an all-zero dataset, a maximum that
\* is no multiple of the tick step, one that is, one beyond it.
MainRows ==
    { Row("Ashby", "AS", <<"0">>),
      Row("Richmond", "RM", <<"1", ",", "1", "0", "3">>),
      Row("Embarcadero", "EM", <<"5", ",", "0", "0", "0">>),
      Row("Fremont", "FR", <<"7", ",", "5", "0", "0">>) }

\* What the other location holds in Spec.
OtherFiles ==
    { << Row("Oakland", "OK", <<"2", ",", "5", "0", "0">>) >>,
      << Row("Oakland", "OK", <<"2", ",", "5", "0", "0">>),
         Row("Ashby", "AS", <<"0">>) >> }

ArgvChoices ==
    {<<PROGRAM>>}
    \cup {<<PROGRAM, loc, OUTPUT_LOCATION>> : loc \in Locations}
    \cup {<<PROGRAM, loc>> : loc \in Locations}

NoCall == [fn |-> "none", max_value |-> 0, count |-> 0, row |-> <<>>,
           done |-> FALSE, error |-> "none", value |-> DblZero,
           station |-> NoStation, stations |-> <<>>]

(***************************************************************************)
(* main.                                                                   *)
(***************************************************************************)
Init ==
    /\ pc = "main"
    /\ argv \in ArgvChoices
    /\ \E rows \in SeqsUpTo(MainRows, MaxStations), other \in OtherFiles :
          files = [loc \in Locations |->
                      IF loc = DEFAULT_DATA_LOCATION THEN rows ELSE other]
    /\ data_loc = "unset"
    /\ output_loc = "unset"
    /\ interactive = FALSE
    /\ data = <<>>
    /\ raw_read = <<>>
    /\ error = "none"
    /\ sketch = NewSketch
    /\ max_value = 0
    /\ idx = 0
    /\ frame = <<>>
    /\ frames = <<>>
    /\ image = [loc |-> "none", frame |-> <<>>]
    /\ stdout = <<>>
    /\ call = NoCall

\* A step of the presenter: the calls cmds are made, control moves to next.
Draws(cmds, next) ==
    LET st == Issue([sketch |-> sketch, frame |-> frame], cmds)
    IN  /\ sketch' = st.sketch
        /\ frame' = st.frame
        /\ pc' = next

\* An exception nothing catches: the run ends.
Raise(e) == pc' = "raised" /\ error' = e

\* main up to the creation of sketch, facade and presenter (lines 231-250).
ParseArgs ==
    /\ pc = "main"
    /\ IF Len(argv) = 1
       THEN /\ data_loc' = DEFAULT_DATA_LOCATION
            /\ output_loc' = "None"
            /\ interactive' = TRUE
            /\ pc' = "load"
            /\ UNCHANGED <<error, stdout>>
       ELSE IF Len(argv) = NUM_ARGS + 1
       THEN /\ data_loc' = argv[2]
            /\ output_loc' = argv[3]
            /\ interactive' = FALSE
            /\ pc' = "load"
            /\ UNCHANGED <<error, stdout>>
       ELSE /\ stdout' = Append(stdout, USAGE_STR)
            /\ pc' = "exited"
            /\ error' = "SystemExit(1)"
            /\ UNCHANGED <<data_loc, output_loc, interactive>>
    /\ UNCHANGED <<argv, files, data, raw_read, sketch, max_value, idx, frame,
                   frames, image, call>>

\* data = data_facade.get_stations(data_loc) (line 253).
LoadData ==
    /\ pc = "load"
    /\ LET r == get_stations(files, data_loc)
       IN  IF r.error # "none"
           THEN Raise(r.error) /\ data' = data
           ELSE /\ data' = r.stations
                /\ pc' = IF interactive THEN "show" ELSE "draw"
                /\ error' = error
    /\ raw_read' = csv_read(files, data_loc)
    /\ UNCHANGED <<argv, files, data_loc, output_loc, interactive, sketch,
                   max_value, idx, frame, frames, image, stdout, call>>

\* sketch.show() calls the on_step callback once more (lines 258-259).
OnStep ==
    /\ pc = "show"
    /\ Len(frames) < MaxFrames
    /\ pc' = "draw"
    /\ UNCHANGED <<argv, files, data_loc, output_loc, interactive, data, raw_read,
                   error, sketch, max_value, idx, frame, frames, image, stdout, call>>

\* The window is closed: show() returns and main ends.
CloseWindow ==
    /\ pc = "show"
    /\ pc' = "done"
    /\ UNCHANGED <<argv, files, data_loc, output_loc, interactive, data, raw_read,
                   error, sketch, max_value, idx, frame, frames, image, stdout, call>>

\* draw up to _draw_title: clear, then max() (lines 127-129); max() of an
\* empty list raises ValueError.
DrawBegin ==
    /\ pc = "draw"
    /\ LET st == Issue([sketch |-> sketch, frame |-> <<>>],
                       << Cmd("clear", <<BG_COLOR>>) >>)
       IN  /\ sketch' = st.sketch
           /\ frame' = st.frame
    /\ IF data = <<>>
       THEN Raise("ValueError") /\ max_value' = max_value
       ELSE /\ max_value' = MaxCount(data)
            /\ pc' = "title"
            /\ error' = error
    /\ UNCHANGED <<argv, files, data_loc, output_loc, interactive, data, raw_read,
                   idx, frames, image, stdout, call>>

DrawTitle ==
    /\ pc = "title"
    /\ Draws(_draw_title, "axis")
    /\ UNCHANGED <<argv, files, data_loc, output_loc, interactive, data, raw_read,
                   error, max_value, idx, frames, image, stdout, call>>

AxisBegin ==
    /\ pc = "axis"
    /\ Draws(_draw_axis_begin, "ticks")
    /\ idx' = 1
    /\ UNCHANGED <<argv, files, data_loc, output_loc, interactive, data, raw_read,
                   error, max_value, frames, image, stdout, call>>

\* One pass of the tick loop (lines 168-179); the length mapping raises
\* when max_value is 0.
AxisTick ==
    /\ pc = "ticks"
    /\ idx <= Len(TickValues(max_value))
    /\ LET value == TickValues(max_value)[idx]
           x     == _get_line_length(max_value, value)
       IN  IF x.error # "none"
           THEN Raise(x.error) /\ UNCHANGED <<sketch, frame, idx>>
           ELSE /\ Draws(_draw_axis_tick(x.value, value), "ticks")
                /\ idx' = idx + 1
                /\ error' = error
    /\ UNCHANGED <<argv, files, data_loc, output_loc, interactive, data, raw_read,
                   max_value, frames, image, stdout, call>>

AxisEnd ==
    /\ pc = "ticks"
    /\ idx > Len(TickValues(max_value))
    /\ Draws(_draw_axis_end, "data")
    /\ UNCHANGED <<argv, files, data_loc, output_loc, interactive, data, raw_read,
                   error, max_value, idx, frames, image, stdout, call>>

DataBegin ==
    /\ pc = "data"
    /\ Draws(_draw_data_begin, "spokes")
    /\ idx' = 1
    /\ UNCHANGED <<argv, files, data_loc, output_loc, interactive, data, raw_read,
                   error, max_value, frames, image, stdout, call>>

\* One pass of the record loop (lines 200-218).
DataSpoke ==
    /\ pc = "spokes"
    /\ idx <= Len(data)
    /\ LET record == data[idx]
           length == _get_line_length(max_value, get_count(record))
       IN  IF length.error # "none"
           THEN Raise(length.error) /\ UNCHANGED <<sketch, frame, idx>>
           ELSE /\ Draws(_draw_data_spoke(length.value, NumLanes(data), record),
                         "spokes")
                /\ idx' = idx + 1
                /\ error' = error
    /\ UNCHANGED <<argv, files, data_loc, output_loc, interactive, data, raw_read,
                   max_value, frames, image, stdout, call>>

\* The end of _draw_data: draw returns, to show() or to save_image.
DataEnd ==
    /\ pc = "spokes"
    /\ idx > Len(data)
    /\ LET st == Issue([sketch |-> sketch, frame |-> frame], _draw_data_end)
       IN  /\ sketch' = st.sketch
           /\ frame' = st.frame
           /\ frames' = Append(frames, st.frame)
    /\ pc' = IF interactive THEN "show" ELSE "save"
    /\ UNCHANGED <<argv, files, data_loc, output_loc, interactive, data, raw_read,
                   error, max_value, idx, image, stdout, call>>

\* sketch.save_image(output_loc) (line 262).
SaveImage ==
    /\ pc = "save"
    /\ image' = [loc |-> output_loc, frame |-> frame]
    /\ pc' = "done"
    /\ UNCHANGED <<argv, files, data_loc, output_loc, interactive, data, raw_read,
                   error, sketch, max_value, idx, frame, frames, stdout, call>>

Next ==
    \/ ParseArgs
    \/ LoadData
    \/ OnStep
    \/ CloseWindow
    \/ DrawBegin
    \/ DrawTitle
    \/ AxisBegin
    \/ AxisTick
    \/ AxisEnd
    \/ DataBegin
    \/ DataSpoke
    \/ DataEnd
    \/ SaveImage

Spec == Init /\ [][Next]_vars

(***************************************************************************)
(* The length mapping on its own: SpecLen calls _get_line_length once on   *)
(* each input drawn.                                                       *)
(***************************************************************************)
\* Maxima beyond LenSmallMax: the one of the unit tests, and three counts of
\* the size the dataset holds.
LenLargeMax == {100, 275, 1103, 5000}

LenInputs ==
    { <<m, c>> \in ((1..LenSmallMax) \cup LenLargeMax) \X (0..5000) :
         /\ c <= m
         /\ (c <= LenSmallMax \/ c >= m - 1 \/ 2 * c = m) }

IdleLocals ==
    /\ argv = <<PROGRAM>>
    /\ data_loc = "unset"
    /\ output_loc = "unset"
    /\ interactive = FALSE
    /\ data = <<>>
    /\ raw_read = <<>>
    /\ error = "none"
    /\ sketch = NewSketch
    /\ max_value = 0
    /\ idx = 0
    /\ frame = <<>>
    /\ frames = <<>>
    /\ image = [loc |-> "none", frame |-> <<>>]
    /\ stdout = <<>>

InitLen ==
    /\ pc = "call"
    /\ IdleLocals
    /\ files = [loc \in Locations |-> <<>>]
    /\ \E in \in LenInputs :
          call = [NoCall EXCEPT !.fn = "_get_line_length",
                                !.max_value = in[1], !.count = in[2]]

CallGetLineLength ==
    /\ pc = "call"
    /\ call.fn = "_get_line_length"
    /\ LET r == _get_line_length(call.max_value, call.count)
       IN  call' = [call EXCEPT !.done = TRUE, !.error = r.error, !.value = r.value]
    /\ pc' = "called"
    /\ UNCHANGED <<argv, files, data_loc, output_loc, interactive, data, raw_read,
                   error, sketch, max_value, idx, frame, frames, image, stdout>>

NextLen == CallGetLineLength

SpecLen == InitLen /\ [][NextLen]_vars

(***************************************************************************)
(* The data facade on its own: SpecLoad calls _parse_data_point once on    *)
(* each row drawn, and get_stations once on each dataset drawn.            *)
(***************************************************************************)
TextChars == {"0", "1", "2", ",", "-", "a"}

\* The rows handed to _parse_data_point: every count text of up to
\* MaxTextLen characters, the row of the unit test, and rows that lack a
\* column.
ParseRows ==
    { Row("Ashby", "AS", t) : t \in SeqsUpTo(TextChars, MaxTextLen) }
    \cup { Row("test", "te", <<"1", ",", "2", "3", "4">>),
           Row("test", "te", <<"a", "b", "c">>) }
    \cup { [code |-> "te", count |-> <<"7">>],
           [name |-> "test", count |-> <<"7">>],
           [name |-> "test", code |-> "te"],
           [name |-> "test", count |-> <<"a">>] }

\* The rows of the datasets handed to get_stations: the counts 500, 100
\* and 300, a second row with the count 100, and four rows at fault.
LoadRows ==
    { Row("Ashby", "AS", <<"5", "0", "0">>),
      Row("Richmond", "RM", <<"1", "0", "0">>),
      Row("Fremont", "FR", <<"3", "0", "0">>),
      Row("Oakland", "OK", <<"1", "0", "0">>),
      Row("Millbrae", "MB", <<"a", "b", "c">>),
      Row("Concord", "CN", <<"-", "5">>),
      [name |-> "Daly City", code |-> "DC"] }

InitLoad ==
    /\ pc = "call"
    /\ IdleLocals
    /\ \/ /\ files = [loc \in Locations |-> <<>>]
          /\ \E row \in ParseRows :
                call = [NoCall EXCEPT !.fn = "_parse_data_point", !.row = row]
       \/ /\ \E rows \in SeqsUpTo(LoadRows, MaxRows) :
                files = [loc \in Locations |->
                            IF loc = DEFAULT_DATA_LOCATION THEN rows ELSE <<>>]
          /\ call = [NoCall EXCEPT !.fn = "get_stations"]

CallParseDataPoint ==
    /\ pc = "call"
    /\ call.fn = "_parse_data_point"
    /\ LET r == _parse_data_point(call.row)
       IN  call' = [call EXCEPT !.done = TRUE, !.error = r.error,
                                !.station = r.station]
    /\ pc' = "called"
    /\ UNCHANGED <<argv, files, data_loc, output_loc, interactive, data, raw_read,
                   error, sketch, max_value, idx, frame, frames, image, stdout>>

CallGetStations ==
    /\ pc = "call"
    /\ call.fn = "get_stations"
    /\ LET r == get_stations(files, DEFAULT_DATA_LOCATION)
       IN  call' = [call EXCEPT !.done = TRUE, !.error = r.error,
                                !.stations = r.stations]
    /\ raw_read' = csv_read(files, DEFAULT_DATA_LOCATION)
    /\ pc' = "called"
    /\ UNCHANGED <<argv, files, data_loc, output_loc, interactive, data,
                   error, sketch, max_value, idx, frame, frames, image, stdout>>

NextLoad ==
    \/ CallParseDataPoint
    \/ CallGetStations

SpecLoad == InitLoad /\ [][NextLoad]_vars

(***************************************************************************)
(* Properties.                                                             *)
(***************************************************************************)
Midpoint == (LINE_MIN_LEN + LINE_MAX_LEN) \div 2

\* C1: for max_value > 0 and 0 <= count <= max_value the length is exactly
\* LINE_MIN_LEN at count 0, exactly LINE_MAX_LEN at count = max_value,
\* exactly the midpoint at count = max_value / 2, never outside
\* [LINE_MIN_LEN, LINE_MAX_LEN], and non-decreasing in count.
C1_LineLengthExact ==
    (call.fn = "_get_line_length" /\ call.done) =>
        LET m == call.max_value
            c == call.count
            v == call.value
        IN  /\ call.error = "none"
            /\ (c = 0 => v = FloatOfInt(LINE_MIN_LEN))
            /\ (c = m => v = FloatOfInt(LINE_MAX_LEN))
            /\ (2 * c = m => v = FloatOfInt(Midpoint))
            /\ FloatLeq(FloatOfInt(LINE_MIN_LEN), v)
            /\ FloatLeq(v, FloatOfInt(LINE_MAX_LEN))
            /\ (c < m => FloatLeq(v, _get_line_length(m, c + 1).value))

\* The records the rows parse to, in source order.
ParsedOf(rows) == [i \in 1..Len(rows) |-> _parse_data_point(rows[i]).station]

\* out is in arranged by a one-to-one p, ascending by count, and records
\* with equal counts keep the order they have in in.
IsStableSortOf(out, in) ==
    /\ Len(out) = Len(in)
    /\ \E p \in [1..Len(in) -> 1..Len(in)] :
          /\ \A i, j \in 1..Len(in) : i # j => p[i] # p[j]
          /\ \A i \in 1..Len(in) : out[i] = in[p[i]]
          /\ \A i, j \in 1..Len(in) :
                i < j => /\ get_count(out[i]) <= get_count(out[j])
                         /\ (get_count(out[i]) = get_count(out[j]) => p[i] < p[j])

\* The run is past get_stations.
Loaded ==
    pc \in {"show", "draw", "title", "axis", "ticks", "data", "spokes", "save",
           "done", "raised"}

\* C2: the sequence get_stations(loc) returns is a permutation of the
\* records parsed from the rows of the source loc (one per row), sorted
\* ascending by count, records with equal counts in the order of their rows.
C2_StableSortedPermutation ==
    (Loaded /\ stations_of(raw_read).error = "none") =>
        IsStableSortOf(data, ParsedOf(files[data_loc]))

\* What get_stations returns is such an arrangement of the rows it read.
StableSortOfRowsRead ==
    /\ (Loaded /\ stations_of(raw_read).error = "none") =>
           IsStableSortOf(data, ParsedOf(raw_read))
    /\ (call.fn = "get_stations" /\ call.done /\ call.error = "none") =>
           IsStableSortOf(call.stations, ParsedOf(raw_read))

\* A count text made of digits and commas, with at least one digit (the
\* texts with well-formed thousands groups are among these).
DigitsAndCommas(text) ==
    /\ \A i \in 1..Len(text) : IsDigit(text[i]) \/ text[i] = ","
    /\ \E i \in 1..Len(text) : IsDigit(text[i])

\* The number the digits of text denote, read in order.
Denoted(text) == DigitsValue(SelectSeq(text, IsDigit))

\* C3: for a row with a name, a code and a count text of digits and
\* grouping commas, _parse_data_point returns a Station with the row's name
\* and code unchanged and the count the digits denote, which is >= 0.
C3_ParseDataPoint ==
    (/\ call.fn = "_parse_data_point" /\ call.done
     /\ DOMAIN call.row = {"name", "code", "count"}
     /\ DigitsAndCommas(call.row.count)) =>
        /\ call.error = "none"
        /\ get_name(call.station) = call.row.name
        /\ get_code(call.station) = call.row.code
        /\ get_count(call.station) = Denoted(call.row.count)
        /\ get_count(call.station) >= 0

C3_Witness ==
    /\ call.fn = "_parse_data_point" /\ call.done
    /\ call.row = Row("test", "te", <<"1", ",", "2", "3", "4">>)
    /\ call.station = Station("test", "te", 1234)

\* C4: get_stations(loc) reads the rows of loc: the records loaded (and
\* rendered) are those of the data location main chose, the first argument
\* in batch mode and the default dataset in interactive mode.
C4_ReadsGivenLocation ==
    Loaded =>
        /\ raw_read = files[data_loc]
        /\ (error = "none" => data = stations_of(files[data_loc]).stations)

\* A row that lacks a column, or whose count text without its commas is
\* not a non-negative integer.
RowAtFault(row) ==
    \/ {"name", "code", "count"} \ DOMAIN row # {}
    \/ ~AllDigits(replace_commas(row["count"]))

\* C5: when a row lacks a field or its count text is no valid non-negative
\* integer, get_stations fails and returns no sequence; so every record of
\* every returned sequence has count >= 0.
C5_FaultyRowAborts ==
    (call.fn = "get_stations" /\ call.done) =>
        /\ (\E i \in 1..Len(raw_read) : RowAtFault(raw_read[i])) =>
               (call.error # "none" /\ call.stations = <<>>)
        /\ \A i \in 1..Len(call.stations) : get_count(call.stations[i]) >= 0

\* Non-empty, every count 0.
AllZero(records) ==
    /\ records # <<>>
    /\ \A i \in 1..Len(records) : get_count(records[i]) = 0

\* C6: draw on a non-empty all-zero dataset fails with a
\* DegenerateDatasetError when max_value is computed: it goes no further
\* than that, and no length is computed with a zero divisor.
C6_DegenerateDatasetRejected ==
    /\ (AllZero(data) /\ Loaded) =>
           pc \notin {"title", "axis", "ticks", "data", "spokes", "save"}
    /\ (AllZero(data) /\ pc = "raised") => error = "DegenerateDatasetError"
    /\ error # "ZeroDivisionError"

\* C7: every change of the drawing frame is scoped: outside the tick loop
\* and the record loop (at the entry of _draw_axis, at the entry of
\* _draw_data, when draw has returned or ended) every push_transform has been
\* matched by its pop_transform, so the stack of saved frames is empty and
\* the frame is the one draw started with; and translate and rotate are
\* only made inside a push / pop pair.
C7_FrameScoped ==
    /\ pc \notin {"ticks", "spokes"} =>
           (sketch.stack = <<>> /\ sketch.transform = <<>>)
    /\ \A i \in 1..Len(frame) :
           frame[i].cmd \in {"translate", "rotate"} => frame[i].eff.depth >= 1

\* C8: rendering is idempotent: every frame drawn issues the calls of the
\* first frame, each under the effective state the first frame made it
\* under (a finished frame equals the first one, a frame under way is a
\* prefix of it).
C8_RenderIdempotent ==
    /\ \A i \in 1..Len(frames) : frames[i] = frames[1]
    /\ frames # <<>> =>
           /\ Len(frame) <= Len(frames[1])
           /\ frame = SubSeq(frames[1], 1, Len(frame))

C8_Witness ==
    /\ Len(frames) = 2
    /\ Len(data) = 2
    /\ Len(frames[2]) > 30

IsLine(entry) == entry.cmd = "draw_line"
IsRotation(t) == t.op = "rotate"

\* The spokes drawn so far in the frame.
Spokes(f) == SelectSeq(f, IsLine)

RECURSIVE SumOfAngles(_)
\* The sum of the quotients num / den of a list of rotations, as a quotient.
SumOfAngles(rots) ==
    IF rots = <<>> THEN [num |-> 0, den |-> 1]
    ELSE LET a == rots[1].by[1]
             r == SumOfAngles(Tail(rots))
         IN  [num |-> a.num * r.den + r.num * a.den, den |-> a.den * r.den]

\* The rotation a spoke is drawn under.
SpokeRotation(spoke) == SumOfAngles(SelectSeq(spoke.eff.transform, IsRotation))

\* C9: with n records the k-th spoke is drawn after k rotations by
\* 360 / (n + 1) degrees each, none undone, so at k * 360 / (n + 1) degrees:
\* strictly between 0 and 360, and no two spokes at the same angle.
C9_LaneSpacing ==
    LET spokes == Spokes(frame)
        n      == Len(data)
    IN  /\ \A k \in 1..Len(spokes) :
              LET rots == SelectSeq(spokes[k].eff.transform, IsRotation)
                  at   == SpokeRotation(spokes[k])
              IN  /\ Len(rots) = k
                  /\ \A i \in 1..k :
                        /\ rots[i].unit = "degrees"
                        /\ rots[i].by[1].num * (n + 1) = FULL_TURN * rots[i].by[1].den
                  /\ at.num * (n + 1) = k * FULL_TURN * at.den
                  /\ 0 < at.num
                  /\ at.num < FULL_TURN * at.den
        /\ \A j, k \in 1..Len(spokes) :
              j # k => SpokeRotation(spokes[j]).num * SpokeRotation(spokes[k]).den
                       # SpokeRotation(spokes[k]).num * SpokeRotation(spokes[j]).den

C9_Witness ==
    /\ pc \in {"show", "save"}
    /\ Len(data) = 2
    /\ Len(Spokes(frame)) = 2

IsPrimitive(entry) == entry.cmd \in {"draw_text", "draw_ellipse", "draw_line"}

FirstIndex(f, name) ==
    CHOOSE i \in 1..Len(f) : f[i].cmd = name /\ \A j \in 1..(i - 1) : f[j].cmd # name

\* What _draw_axis drew after the origin label: the primitives between the
\* first push_transform and the first pop_transform of the frame, but the
\* first.
TickPrimitives(f) ==
    Tail(SelectSeq(SubSeq(f, FirstIndex(f, "push_transform"),
                          FirstIndex(f, "pop_transform")), IsPrimitive))

\* The multiples of 5000 from 0 up to max_v rounded up to a multiple.
ExpectedTicks(max_v) ==
    [i \in 1..(((max_v + TICK_STEP - 1) \div TICK_STEP) + 1) |-> (i - 1) * TICK_STEP]

\* _draw_axis has finished in the frame under way (or just drawn).
AxisDrawn == pc \in {"data", "spokes", "save"} \/ (pc = "show" /\ frames # <<>>)

\* C10: for max_value > 0, _draw_axis draws, in ascending order, one
\* unfilled ring of radius L(tick) and then one label at (L(tick), 0) for
\* exactly the multiples of 5000 from 0 up to max_value rounded up to the
\* next multiple; the outermost ring is at least as wide as every spoke.
C10_TickRings ==
    (AxisDrawn /\ max_value > 0) =>
        LET drawn == TickPrimitives(frame)
            ticks == ExpectedTicks(max_value)
            outer == _get_line_length(max_value, ticks[Len(ticks)]).value
        IN  /\ Len(drawn) = 2 * Len(ticks)
            /\ \A i \in 1..Len(ticks) :
                  LET radius == _get_line_length(max_value, ticks[i]).value
                      ring   == drawn[2 * i - 1]
                      label  == drawn[2 * i]
                  IN  /\ ring.cmd = "draw_ellipse"
                      /\ ring.eff.fill = "none"
                      /\ ring.args = <<0, 0, radius, radius>>
                      /\ label.cmd = "draw_text"
                      /\ label.args[1] = radius
                      /\ label.args[2] = 0
            /\ drawn[Len(drawn) - 1].args[3] = outer
            /\ \A i \in 1..Len(data) :
                  FloatLeq(_get_line_length(max_value, get_count(data[i])).value, outer)
            /\ \A k \in 1..Len(Spokes(frame)) :
                  FloatLeq(Spokes(frame)[k].args[3], outer)

C10_Witness ==
    /\ pc = "save"
    /\ max_value = 1103
    /\ Len(TickPrimitives(frame)) = 4
    /\ Len(Spokes(frame)) = 2

====
